---- MODULE Spec2Model ----
(***************************************************************************)
(* The Place and City views of the AirBnB REST API                         *)
(* (api/v1/views/places.py, api/v1/views/cities.py): the POST              *)
(* /places_search filter and the PUT handlers of Place and City, over an   *)
(* object store holding states, cities, places and amenities.              *)
(*                                                                         *)
(* Objects are referred to by their id (the views compare objects by       *)
(* identity, and the store hands out one object per id).  The store, the   *)
(* models' relationship accessors and to_dict live in the models package;  *)
(* they are modelled from the specification's EntityStore interface.       *)
(***************************************************************************)
EXTENDS Integers, Sequences, FiniteSets, TLC

VARIABLES places, cities, req, resp

vars == <<places, cities, req, resp>>

(***************************************************************************)
(* Bounds of the model.                                                    *)
(***************************************************************************)
\* The store holds at most MaxPlaces places.
MaxPlaces == 2
\* A search body carries at most MaxIds ids, over its three lists together.
MaxIds == 2

(***************************************************************************)
(* The universe of identifiers.  Unknown is an id that no object has.      *)
(***************************************************************************)
None == "None"
Unknown == "X"
StateIds == {"S1", "S2"}
AmenityIds == {"A1", "A2"}
PlaceIdSeq == <<"P1", "P2", "P3", "P4">>
Owner == "U1"
InitialName == "n0"
PutValue == "v1"

CityIds == {"C1", "C2"}

\* The cities of a store in enumeration order: C1 is a city of S1, and C2 a
\* city of S1 or of S2.
CityTables ==
    {<< [id |-> "C1", state_id |-> "S1", name |-> InitialName],
        [id |-> "C2", state_id |-> s, name |-> InitialName] >> : s \in StateIds}

Range(s) == {s[i] : i \in DOMAIN s}

\* Sequences over U of length at most n.
SeqsUpTo(U, n) == UNION {[1..k -> U] : k \in 0..n}

(***************************************************************************)
(* The object store (models.storage) and the models' accessors.            *)
(***************************************************************************)
\* storage.all(Place).values(): the places in the store's enumeration order.
storage_all_Place == [i \in DOMAIN places |-> places[i].id]

\* storage.get(cls, id): the object of that class and id, or None.
storage_get(cls, id) ==
    CASE cls = "State" -> IF id \in StateIds THEN id ELSE None
      [] cls = "City" ->
            IF \E i \in DOMAIN cities : cities[i].id = id THEN id ELSE None
      [] cls = "Place" ->
            IF \E i \in DOMAIN places : places[i].id = id THEN id ELSE None
      [] cls = "Amenity" -> IF id \in AmenityIds THEN id ELSE None

PlaceById(pid) == places[CHOOSE i \in DOMAIN places : places[i].id = pid]

\* state.cities: the cities whose state_id is the state's id.
state_cities(s) ==
    LET sel == SelectSeq(cities, LAMBDA c : c.state_id = s)
    IN  [i \in DOMAIN sel |-> sel[i].id]

\* city.places: the places whose city_id is the city's id.
city_places(c) ==
    LET sel == SelectSeq(places, LAMBDA p : p.city_id = c)
    IN  [i \in DOMAIN sel |-> sel[i].id]

\* place.amenities: the amenities linked to the place.
place_amenities(pid) == PlaceById(pid).amenities

\* obj.to_dict(): the representation of an object, one key per attribute;
\* a place's representation carries its amenities.
to_dict(obj) == [k \in DOMAIN obj |-> obj[k]]

\* d.pop(key, None)
Pop(d, key) == [k \in DOMAIN d \ {key} |-> d[k]]

(***************************************************************************)
(* Requests and responses.                                                 *)
(***************************************************************************)
NoReq == [op |-> "none", id |-> "", body |-> [kind |-> "none"]]
NoResp == [status |-> 0, json |-> <<>>, error |-> ""]

\* A JSON list response, a JSON object response (a one-element json), and
\* the error handlers' responses.
Ok(list) == [status |-> 200, json |-> list, error |-> ""]
BadRequest == [status |-> 400, json |-> <<>>, error |-> "Bad Request"]
NotFound == [status |-> 404, json |-> <<>>, error |-> "Not found"]
ServerError == [status |-> 500, json |-> <<>>, error |-> "Internal Server Error"]

\* A criterion of a search body: the key is absent, or holds a list of ids.
Absent == [present |-> FALSE, ids |-> <<>>]
Crits(U, n) == {Absent} \cup {[present |-> TRUE, ids |-> s] : s \in SeqsUpTo(U, n)}

\* The bodies of POST /places_search: text that is not JSON, the JSON values
\* null, array, string, number (n is the length or the number), and objects
\* with the keys states, cities, amenities and possibly others (extra).
Scalar(kind, n) ==
    [kind |-> kind, n |-> n, states |-> Absent, cities |-> Absent,
     amenities |-> Absent, extra |-> FALSE]

\* The objects whose three lists hold at most MaxIds ids together.
CriteriaBodies ==
    UNION {UNION {{[kind |-> "object", n |-> 0, states |-> s, cities |-> c,
                    amenities |-> a, extra |-> FALSE] :
                      a \in Crits(AmenityIds \cup {Unknown},
                                  MaxIds - Len(s.ids) - Len(c.ids))} :
                  c \in Crits(CityIds \cup {Unknown}, MaxIds - Len(s.ids))} :
           s \in Crits(StateIds \cup {Unknown}, MaxIds)}

SearchBodies ==
    {Scalar("invalid", 0), Scalar("null", 0)}
    \cup {Scalar(k, n) : k \in {"array", "string", "number"}, n \in 0..1}
    \cup {[Scalar("object", 0) EXCEPT !.extra = TRUE]}
    \cup CriteriaBodies

(***************************************************************************)
(* places_search                                                           *)
(***************************************************************************)
\* Python truth of a parsed JSON value: an empty container, an empty string
\* and 0 are false.
Truthy(data) ==
    IF data.kind = "object"
    THEN data.states.present \/ data.cities.present \/ data.amenities.present
         \/ data.extra
    ELSE data.n > 0

\* Python truth of data.get(key, None): None and the empty list are false.
Given(crit) == crit.present /\ crit.ids # <<>>

\* The test without its clause on the three criteria.
NoCriteriaEmptyBodyOnly(data) == ~Truthy(data)

\* The test that sends the request to the unfiltered listing.
NoCriteria(data) ==
    \/ ~Truthy(data)
    \/ (~Given(data.states) /\ ~Given(data.cities) /\ ~Given(data.amenities))

RECURSIVE Flatten(_)
Flatten(ss) == IF ss = <<>> THEN <<>> ELSE Head(ss) \o Flatten(Tail(ss))

\* The places of the listed states in the store's enumeration order.
StatePassStoreOrder(states) ==
    SelectSeq(storage_all_Place, LAMBDA pid :
        \E i \in DOMAIN cities :
            /\ cities[i].id = PlaceById(pid).city_id
            /\ cities[i].state_id \in Range(states))

\* The states loop: every place of every city of every state that resolves.
StatePass(states) ==
    Flatten([i \in DOMAIN states |->
        IF storage_get("State", states[i]) = None THEN <<>>
        ELSE LET cs == state_cities(states[i])
             IN  Flatten([j \in DOMAIN cs |-> city_places(cs[j])])])

RECURSIVE AppendNew(_, _)
AppendNew(list, ps) ==
    IF ps = <<>> THEN list
    ELSE AppendNew(IF Head(ps) \in Range(list) THEN list
                   ELSE Append(list, Head(ps)), Tail(ps))

\* The cities loop: the places of every city that resolves, unless listed.
RECURSIVE CityPass(_, _)
CityPass(list, cs) ==
    IF cs = <<>> THEN list
    ELSE CityPass(IF storage_get("City", Head(cs)) = None THEN list
                  ELSE AppendNew(list, city_places(Head(cs))), Tail(cs))

\* any(...) in place of all(...).
AmenityMatchAny(pid, amenities_obj) ==
    \E i \in DOMAIN amenities_obj : amenities_obj[i] \in place_amenities(pid)

\* all([am in place.amenities for am in amenities_obj])
AmenityMatch(pid, amenities_obj) ==
    \A i \in DOMAIN amenities_obj : amenities_obj[i] \in place_amenities(pid)

\* The amenities filter with the ids that resolve to no Amenity left out.
AmenityPassSkipUnresolved(list, amenities) ==
    LET base == IF list = <<>> THEN storage_all_Place ELSE list
        found == SelectSeq(amenities, LAMBDA a : storage_get("Amenity", a) # None)
    IN  SelectSeq(base, LAMBDA pid : \A i \in DOMAIN found : found[i] \in place_amenities(pid))

\* The amenities filter, with its fall-back to every place of the store.
AmenityPass(list, amenities) ==
    LET base == IF list = <<>> THEN storage_all_Place ELSE list
        amenities_obj == [i \in DOMAIN amenities |->
                             storage_get("Amenity", amenities[i])]
    IN  SelectSeq(base, LAMBDA pid : AmenityMatch(pid, amenities_obj))

\* The list with the fall-back to every place applied to any empty list,
\* not only under the amenities filter.
FilterPlacesFallback(data) ==
    LET l1 == IF Given(data.states) THEN StatePass(data.states.ids) ELSE <<>>
        l2 == IF Given(data.cities) THEN CityPass(l1, data.cities.ids) ELSE l1
        l3 == IF l2 = <<>> THEN storage_all_Place ELSE l2
    IN  IF Given(data.amenities) THEN AmenityPass(l3, data.amenities.ids) ELSE l3

\* The list of places of a request that carries criteria.
FilterPlaces(data) ==
    LET l1 == IF Given(data.states) THEN StatePass(data.states.ids) ELSE <<>>
        l2 == IF Given(data.cities) THEN CityPass(l1, data.cities.ids) ELSE l1
    IN  IF Given(data.amenities) THEN AmenityPass(l2, data.amenities.ids) ELSE l2

\* The unfiltered listing.
ListAll == [i \in DOMAIN places |-> to_dict(places[i])]

\* The final loop: each place's representation without its amenities.
Serialize(list) ==
    [i \in DOMAIN list |-> Pop(to_dict(PlaceById(list[i])), "amenities")]

SearchResponse(data) ==
    IF data.kind \in {"invalid", "null"} THEN BadRequest
    ELSE IF Truthy(data) /\ data.kind # "object" THEN ServerError
    ELSE IF NoCriteria(data) THEN Ok(ListAll)
    ELSE Ok(Serialize(FilterPlaces(data)))

places_search(data) ==
    /\ req' = [op |-> "places_search", id |-> "", body |-> data]
    /\ resp' = SearchResponse(data)
    /\ UNCHANGED <<places, cities>>

(***************************************************************************)
(* The stores the search runs on: up to MaxPlaces places, each in a city   *)
(* of the store and linked to amenities of the store.                      *)
(***************************************************************************)
PlaceOf(i, c, ams) ==
    [id |-> PlaceIdSeq[i], user_id |-> Owner, city_id |-> c,
     name |-> InitialName, amenities |-> ams]

Stores ==
    UNION {{[i \in 1..n |-> PlaceOf(i, cs[i], as[i])] :
               cs \in [1..n -> CityIds], as \in [1..n -> SUBSET AmenityIds]} :
           n \in 0..MaxPlaces}

InitSearch ==
    /\ places \in Stores
    /\ cities \in CityTables
    /\ req = NoReq
    /\ resp = NoResp

NextSearch == req.op = "none" /\ \E data \in SearchBodies : places_search(data)

SpecSearch == InitSearch /\ [][NextSearch]_vars

(***************************************************************************)
(* update_place and update_city                                            *)
(***************************************************************************)
\* The bodies of a PUT: text that is not JSON, a JSON array, and objects.
\* An object is given by its keys; each key holds PutValue.
PlacePutKeys == {"id", "user_id", "city_id", "updated_at", "name"}
CityPutKeys == {"id", "state_id", "updated_at", "name"}

PutBodies(keys) ==
    {[kind |-> "invalid", keys |-> {}], [kind |-> "array", keys |-> {}]}
    \cup {[kind |-> "object", keys |-> K] : K \in SUBSET keys}

\* ignore_keys of update_place without city_id.
PlaceIgnoreKeysNoCity == {"id", "user_id", "created_at", "updated_at"}

\* ignore_keys of update_place and of update_city.
PlaceIgnoreKeys == {"id", "user_id", "city_id", "created_at", "updated_at"}
CityIgnoreKeys == {"id", "state_id", "created_at", "updated_at"}

\* The setattr loop: every key of the body outside ignore_keys is set.
SetAttrs(obj, body, ignore_keys) ==
    LET set == body.keys \ ignore_keys
    IN  [k \in DOMAIN obj \cup set |-> IF k \in set THEN PutValue ELSE obj[k]]

\* "not request.get_json()": the body is not JSON, or is an empty object.
NotAJson(body) == body.kind = "invalid" \/ (body.kind = "object" /\ body.keys = {})

update_place(place_id, body) ==
    /\ req' = [op |-> "update_place", id |-> place_id, body |-> body]
    /\ IF storage_get("Place", place_id) = None
       THEN resp' = NotFound /\ UNCHANGED <<places, cities>>
       ELSE IF NotAJson(body)
       THEN resp' = BadRequest /\ UNCHANGED <<places, cities>>
       ELSE IF body.kind # "object"
       THEN resp' = ServerError /\ UNCHANGED <<places, cities>>
       ELSE LET i == CHOOSE j \in DOMAIN places : places[j].id = place_id
                place == SetAttrs(places[i], body, PlaceIgnoreKeys)
            IN  /\ places' = [places EXCEPT ![i] = place]
                /\ resp' = Ok(<<to_dict(place)>>)
                /\ UNCHANGED cities

update_city(city_id, body) ==
    /\ req' = [op |-> "update_city", id |-> city_id, body |-> body]
    /\ IF storage_get("City", city_id) = None
       THEN resp' = NotFound /\ UNCHANGED <<places, cities>>
       ELSE IF NotAJson(body)
       THEN resp' = BadRequest /\ UNCHANGED <<places, cities>>
       ELSE IF body.kind # "object"
       THEN resp' = ServerError /\ UNCHANGED <<places, cities>>
       ELSE LET i == CHOOSE j \in DOMAIN cities : cities[j].id = city_id
                city == SetAttrs(cities[i], body, CityIgnoreKeys)
            IN  /\ cities' = [cities EXCEPT ![i] = city]
                /\ resp' = Ok(<<to_dict(city)>>)
                /\ UNCHANGED places

\* The stores the PUT handlers run on: up to MaxPlaces places, in C1 and C2
\* alternately, and the two cities, both of S1.
InitUpdate ==
    /\ \E n \in 0..MaxPlaces :
          places = [i \in 1..n |->
                       PlaceOf(i, IF i % 2 = 1 THEN "C1" ELSE "C2", {})]
    /\ cities \in {t \in CityTables : t[2].state_id = "S1"}
    /\ req = NoReq
    /\ resp = NoResp

NextUpdate ==
    \/ \E id \in Range(storage_all_Place) \cup {Unknown},
          body \in PutBodies(PlacePutKeys) : update_place(id, body)
    \/ \E id \in CityIds \cup {Unknown},
          body \in PutBodies(CityPutKeys) : update_city(id, body)

SpecUpdate == InitUpdate /\ [][NextUpdate]_vars

(***************************************************************************)
(* Properties.  They are stated over the last request and its response,    *)
(* from the store alone, without the operators of the handlers.            *)
(***************************************************************************)
Searched == req.op = "places_search"
SearchedObject == Searched /\ req.body.kind = "object"
Empty(crit) == ~crit.present \/ crit.ids = <<>>
Listed(crit) == {crit.ids[i] : i \in DOMAIN crit.ids}

\* The ids of the places of the response, and of the store, in order.
ResultIds == [i \in DOMAIN resp.json |-> resp.json[i].id]
StoreIds == [i \in DOMAIN places |-> places[i].id]
Stored(pid) == CHOOSE p \in Range(places) : p.id = pid
StateOfCity(c) == (CHOOSE x \in Range(cities) : x.id = c).state_id

\* A place is selected by the state and city lists of the request when its
\* city is listed or its city's state is listed.
Selected(p) ==
    \/ p.city_id \in Listed(req.body.cities)
    \/ StateOfCity(p.city_id) \in Listed(req.body.states)

\* C1: a search whose three criteria are all absent or empty answers 200
\* with every place of the store exactly once, in the store's order.
C1_EmptyCriteriaListAll ==
    (SearchedObject /\ Empty(req.body.states) /\ Empty(req.body.cities)
        /\ Empty(req.body.amenities))
    => (resp.status = 200 /\ ResultIds = StoreIds)

C1_Witness ==
    /\ SearchedObject
    /\ req.body.states.present /\ req.body.states.ids = <<>>
    /\ ~req.body.cities.present
    /\ req.body.amenities.present /\ req.body.amenities.ids = <<>>
    /\ Len(places) = 2
    /\ resp.status = 200 /\ ResultIds = <<"P1", "P2">>

\* C2: in every search answered 200 no returned place has an amenities key,
\* and every other attribute is that of the stored place.
C2_AmenitiesStripped ==
    (Searched /\ resp.status = 200)
    => \A i \in DOMAIN resp.json :
          /\ "amenities" \notin DOMAIN resp.json[i]
          /\ \A k \in DOMAIN resp.json[i] :
                resp.json[i][k] = Stored(resp.json[i].id)[k]

\* C3: when the state list or the city list is non-empty, every returned
\* place is in a listed city or in a city of a listed state.
C3_ResultWithinStatesAndCities ==
    (SearchedObject /\ resp.status = 200
        /\ (~Empty(req.body.states) \/ ~Empty(req.body.cities)))
    => \A i \in DOMAIN resp.json : Selected(Stored(resp.json[i].id))

\* C4: with no state and no city listed and a non-empty amenity list whose
\* ids all resolve, a place is returned iff it has every listed amenity.
C4_AmenitySuperset ==
    (SearchedObject /\ Empty(req.body.states) /\ Empty(req.body.cities)
        /\ ~Empty(req.body.amenities)
        /\ Listed(req.body.amenities) \subseteq AmenityIds)
    => /\ resp.status = 200
       /\ \A p \in Range(places) :
             (p.id \in Range(ResultIds))
                <=> (Listed(req.body.amenities) \subseteq p.amenities)

C4_Witness ==
    /\ SearchedObject
    /\ Empty(req.body.states) /\ Empty(req.body.cities)
    /\ req.body.amenities.ids = <<"A1", "A2">>
    /\ Len(places) = 2
    /\ places[1].amenities = {"A1"}
    /\ places[2].amenities = {"A1", "A2"}
    /\ ResultIds = <<"P2">>

\* C5: no place appears more than once in the result of a search.
C5_NoDuplicates ==
    (Searched /\ resp.status = 200)
    => \A i, j \in DOMAIN resp.json :
          i # j => resp.json[i].id # resp.json[j].id

\* C6: with no amenity listed and a state or a city listed, the search
\* answers 200 with exactly the places of the listed ids that resolve; ids
\* that resolve to nothing contribute nothing.
C6_UnresolvableIdsSkipped ==
    (SearchedObject /\ Empty(req.body.amenities)
        /\ (~Empty(req.body.states) \/ ~Empty(req.body.cities)))
    => /\ resp.status = 200
       /\ Range(ResultIds) = {p.id : p \in {q \in Range(places) : Selected(q)}}

C6_Witness ==
    /\ SearchedObject /\ Empty(req.body.amenities)
    /\ Unknown \in Listed(req.body.states)
    /\ Unknown \in Listed(req.body.cities)
    /\ places # <<>>
    /\ resp.status = 200 /\ resp.json = <<>>

\* C7: the search answers 400 exactly when the body is not valid JSON, and
\* 200 for every body that is valid JSON.
C7_BadRequestIffNotJson ==
    Searched
    => /\ (resp.status = 400) <=> (req.body.kind = "invalid")
       /\ (req.body.kind # "invalid") => (resp.status = 200)

\* C8: the places derived from the state list come first, in the order of
\* the list, of each state's cities and of each city's places; then the
\* places derived from the city list that are not yet listed, in the order
\* of the city list; the amenity filter keeps that order.
RECURSIVE Cat(_)
Cat(ss) == IF Len(ss) = 0 THEN <<>> ELSE Cat(SubSeq(ss, 1, Len(ss) - 1)) \o ss[Len(ss)]
PlacesIn(c) == SelectSeq(StoreIds, LAMBDA pid : Stored(pid).city_id = c)
PlacesUnder(s) ==
    Cat([i \in DOMAIN cities |->
            IF cities[i].state_id = s THEN PlacesIn(cities[i].id) ELSE <<>>])
FromStates == Cat([i \in DOMAIN req.body.states.ids |-> PlacesUnder(req.body.states.ids[i])])
FromCities == Cat([i \in DOMAIN req.body.cities.ids |-> PlacesIn(req.body.cities.ids[i])])
\* The first occurrences in FromCities of the places not in FromStates.
NewFromCities ==
    LET fc == FromCities
        seen == Range(FromStates)
        Pick[i \in 0..Len(fc)] ==
            IF i = 0 THEN <<>>
            ELSE IF fc[i] \notin seen /\ \A j \in 1..(i - 1) : fc[j] # fc[i]
                 THEN Append(Pick[i - 1], fc[i])
                 ELSE Pick[i - 1]
    IN  Pick[Len(fc)]
Derived == FromStates \o NewFromCities

C8_DerivedOrderKept ==
    (SearchedObject /\ resp.status = 200)
    => LET derived == Derived
           result == ResultIds
           inDerived == Range(derived)
           inResult == Range(result)
       IN  SelectSeq(result, LAMBDA pid : pid \in inDerived)
              = SelectSeq(derived, LAMBDA pid : pid \in inResult)

C8_Witness ==
    /\ SearchedObject
    /\ req.body.states.ids = <<"S1">>
    /\ req.body.amenities.ids = <<"A1">>
    /\ StoreIds = <<"P1", "P2">>
    /\ places[1].city_id = "C2" /\ places[2].city_id = "C1"
    /\ ResultIds = <<"P2", "P1">>

\* C9: a search whose amenity list holds an id that resolves to no Amenity
\* answers 200 with the empty list.
C9_UnresolvedAmenityEmptiesResult ==
    (SearchedObject /\ Listed(req.body.amenities) \ AmenityIds # {})
    => (resp.status = 200 /\ resp.json = <<>>)

C9_Witness ==
    /\ SearchedObject
    /\ req.body.amenities.ids = <<"A1", Unknown>>
    /\ \E p \in Range(places) : "A1" \in p.amenities
    /\ resp.status = 200 /\ resp.json = <<>>

\* C10: a PUT never changes a place's id, user_id or city_id, nor a city's
\* id or state_id, and a PUT on an id that is not in the store answers 404
\* and changes no entity.
PlaceKeysKept ==
    /\ Len(places') = Len(places)
    /\ \A i \in DOMAIN places :
          /\ places'[i].id = places[i].id
          /\ places'[i].user_id = places[i].user_id
          /\ places'[i].city_id = places[i].city_id
CityKeysKept ==
    /\ Len(cities') = Len(cities)
    /\ \A i \in DOMAIN cities :
          /\ cities'[i].id = cities[i].id
          /\ cities'[i].state_id = cities[i].state_id
MissingAnswers404 ==
    ( \/ (req'.op = "update_place" /\ req'.id \notin Range(StoreIds))
      \/ (req'.op = "update_city" /\ req'.id \notin {c.id : c \in Range(cities)}) )
    => (resp'.status = 404 /\ places' = places /\ cities' = cities)

C10_PutKeepsIdsAndForeignKeys ==
    [][PlaceKeysKept /\ CityKeysKept /\ MissingAnswers404]_vars

C10_Witness ==
    /\ req.op = "update_place"
    /\ req.body.kind = "object"
    /\ req.body.keys = {"id", "user_id", "city_id", "name"}
    /\ resp.status = 200
    /\ Stored(req.id).name = PutValue
    /\ Stored(req.id).city_id = "C2"
    /\ \E c \in Range(cities) : c.name = PutValue /\ c.state_id = "S1"

====
